---- MODULE Spec2Model ----
(***************************************************************************)
(* Control plane and key-value storage of a pyquarkchain cluster.           *)
(*                                                                         *)
(*   - MasterServer (quarkchain/cluster/master.py): the __initCluster task  *)
(*     that connects to every configured slave, verifies it with a ping,    *)
(*     fills slavePool / shardToSlaves and asks the slaves to connect to    *)
(*     each other; SlaveConnection.close and MasterServer.shutdown.         *)
(*   - Cluster (quarkchain/cluster/cluster.py): the supervisor that spawns  *)
(*     the processes, waits for them and kills the descendants.             *)
(*   - P2PNetwork (quarkchain/p2p/p2p_network.py): one node's               *)
(*     refreshConnections and the connect tasks it starts.                  *)
(*   - DbOpsMixin, InMemoryDb, OverlayDb (quarkchain/db.py): the account    *)
(*     history written by putTx and read by accountTxIter, and the overlay  *)
(*     over a store.                                                        *)
(*                                                                         *)
(* The first three run on an asyncio event loop: an action is one callback  *)
(* of the loop, i.e. a coroutine's code from one suspension point to the    *)
(* next.  An action of the database is one call.                            *)
(***************************************************************************)
EXTENDS Integers, Sequences, FiniteSets, TLC

\* ---------------------------------------------------------------- bounds
NumSlaves == 2          \* slaves in the cluster configuration
ShardSize == 2          \* qcState.getShardSize()
MaxAttempts == 2        \* failed open_connection attempts modelled per slave
MaxDirectShutdowns == 2 \* calls of Cluster.shutdown from outside waitAndShutdown
NumPorts == 3           \* node addresses on the network (this node's among them)
MaxPeers == 2           \* connections of a node: connect tasks and Peer objects
NumTx == 2              \* transactions (and their hashes) that can be stored

Slaves == 1..NumSlaves

\* The supervised processes: the master and the slaves.
MasterProc == 0
Procs == {MasterProc} \cup Slaves
Shards == 0..(ShardSize - 1)

\* The shard_masks lists a configuration entry is drawn from: no mask, every
\* shard (1), the even shards (2), the odd shards (3), two masks that split the
\* shards, two masks that overlap.
ConfigMaskLists == {<<>>, <<1>>, <<2>>, <<3>>, <<2, 3>>, <<1, 2>>}

\* The lists a PING response may carry: those, and one in another order.
MaskLists == ConfigMaskLists \cup {<<3, 2>>}

\* Result lists of a CONNECT_TO_SLAVES response: "" is success, "e" an error.
ResultLists ==
    UNION {[1..n -> {"", "e"}] : n \in (NumSlaves - 1)..NumSlaves}

\* The nodes of the network share the ip and differ by the port.
Ports == 9..(8 + NumPorts)

\* '{}:{}'.format(ip, port): the port in decimal, a string of digits (the ip
\* part is the same prefix for every node).
RECURSIVE ip_port(_)
ip_port(port) ==
    IF port < 10 THEN <<port>> ELSE Append(ip_port(port \div 10), port % 10)

\* ip_port.split(':') followed by the resolution of the port by
\* open_connection: the number the digits stand for.
RECURSIVE split(_)
split(str) ==
    IF str = <<>> THEN 0
    ELSE 10 * split(SubSeq(str, 1, Len(str) - 1)) + str[Len(str)]

\* str < str of Python: the first differing character decides, and a proper
\* prefix is less.
RECURSIVE StrLess(_, _)
StrLess(a, b) ==
    IF b = <<>> THEN FALSE
    ELSE IF a = <<>> THEN TRUE
    ELSE IF Head(a) # Head(b) THEN Head(a) < Head(b)
    ELSE StrLess(Tail(a), Tail(b))

\* ---------------------------------------------------------------- db.py data
\* Byte strings are sequences of byte values.  An address and a transaction
\* hash serialize to one byte here, a timestamp to one symbol of the
\* timestamp range; each is a fixed-width field, as in the code.
ByteMax == 255

\* DbOpsMixin.MAX_TIMESTAMP, the largest value of the timestamp field.
MAX_TIMESTAMP == ByteMax

\* The createTime of a block: the two ends of the timestamp range.
Times == {0, MAX_TIMESTAMP}

TxHashes == 1..NumTx

\* Two adjacent addresses, the second one the largest of its width.
Addresses == {ByteMax - 1, ByteMax}

\* Python's None, apart from every byte string.
None == <<-1>>

\* b'addr_', b'tx_', b'txBlockHeader_', b'spent_'
addr_ == <<97, 100, 100, 114, 95>>

tx_ == <<116, 120, 95>>

txBlockHeader_ == <<116, 120, 66, 108, 111, 99, 107, 72, 101, 97, 100, 101, 114, 95>>

spent_ == <<115, 112, 101, 110, 116, 95>>

\* The result record of no iteration.
NoIter == [address |-> 0, limit |-> 0, yielded |-> <<>>, outcome |-> "none"]

\* The output lists and the transactions of the model: at most one input,
\* which names an output (hash, index) of another transaction.
OutLists == {<<a>> : a \in Addresses} \cup {<<ByteMax - 1, ByteMax>>}

TxInputs == {<<h, i>> : h \in TxHashes, i \in 1..2}

Transactions ==
    [inList : {<<>>} \cup {<<in>> : in \in TxInputs}, outList : OutLists]

AddrStrings == {ip_port(p) : p \in Ports}

RECURSIVE AsList(_)
AsList(S) ==
    IF S = {} THEN <<>>
    ELSE LET a == CHOOSE a \in S : TRUE IN <<a>> \o AsList(S \ {a})

\* The lists getConnectedPeers can hand to refreshConnections: any addresses,
\* and an address listed twice.
PeerLists ==
    {AsList(S) : S \in SUBSET AddrStrings} \cup {<<a, a>> : a \in AddrStrings}

VARIABLES
    config,         \* clusterConfig: slave index -> its shard_masks (its id is the index)
    pc,             \* where the __initCluster task is suspended
    idx,            \* the slave __connectToSlaves is working on
    attempts,       \* failed open_connection calls of the current __connect
    sleeps,         \* asyncio.sleep(1) delays of the current __connect
    conn,           \* SlaveConnection state per slave: none/connecting/active/closed
    activeFuture,   \* slaves whose activeFuture is resolved
    slavePool,      \* MasterServer.slavePool
    shardToSlaves,  \* MasterServer.shardToSlaves
    pingSent,       \* slaves a PING request was written to
    mismatched,     \* slaves whose PING response differed from the configuration
    meshSent,       \* slaves a CONNECT_TO_SLAVES request was written to
    meshReq,        \* per slave: the slaveInfoList of the request written to it
    meshCur,        \* the slave whose CONNECT_TO_SLAVES response is awaited
    meshDone,       \* slaves whose sendConnectToSlaves returned True
    meshErr,        \* slaves whose CONNECT_TO_SLAVES response was bad
    shutdownCalls,  \* calls of MasterServer.shutdown
    loop,           \* the event loop: running / stopping (last batch) / stopped
    batch,          \* tasks with a callback left in the last batch of a stopping
                    \* loop: InitTask and the receive loops of the handles
    \* ---- the supervisor (cluster.py)
    supPc,          \* where the caller of Cluster's coroutines is
    procs,          \* Cluster.procs: the labels of the records, in order
    st,             \* per process: none (not spawned) / alive / gone
    task,           \* per process: its waitAndShutdown task
    shutdownCalled, \* Cluster.shutdownCalled
    sdCalls,        \* calls of Cluster.shutdown
    directCalls,    \* those made outside waitAndShutdown
    killBy,         \* who runs kill_child_processes: none / task / caller
    killTask,       \* the waitAndShutdown task that runs it
    killList,       \* the children still to be signalled
    killState,      \* how the last kill_child_processes ended
    banners,        \* shutdown banners printed
    sig,            \* per process: termination signals sent to it
    cmd,            \* per spawned slave process: the arguments of its command line
    \* ---- P2PNetwork (p2p_network.py), one node
    selfPort,       \* P2PNetwork.port (with ip, the node's address); 0: not built
    peerObjs,       \* the Peer objects, by cluster peer id
    activePeerPool, \* P2PNetwork.activePeerPool: the cluster peer ids in it
    dialing,        \* per 'ip:port': connect tasks waiting in open_connection
    kv,             \* InMemoryDb.kv: key -> value
    overlay,        \* OverlayDb.overlay: key -> value or None
    txIter          \* the accountTxIter consumed on the present store: its
                    \* arguments, what it yielded and how it ended

\* The state of the master process and of the supervisor process.
mvars == <<pc, idx, attempts, sleeps, conn, activeFuture, slavePool,
           shardToSlaves, pingSent, mismatched, meshSent, meshReq, meshCur,
           meshDone, meshErr, shutdownCalls, loop, batch>>

svars == <<supPc, procs, st, task, shutdownCalled, sdCalls, directCalls,
           killBy, killTask, killList, killState, banners, sig, cmd>>

pvars == <<selfPort, peerObjs, activePeerPool, dialing>>

dvars == <<kv, overlay, txIter>>

vars == <<config, mvars, svars, pvars, dvars>>

\* ------------------------------------------------------- shard masks
RECURSIVE int_left_most_bit(_)
int_left_most_bit(v) == IF v = 0 THEN 0 ELSE 1 + int_left_most_bit(v \div 2)

\* The bits of the mask below its highest set bit are the pattern the low bits
\* of the shard id must match.
is_shard_in_mask(shardId, mask) ==
    LET bitMask == 2 ^ (int_left_most_bit(mask) - 1) - 1
    IN  shardId % (bitMask + 1) = mask % (bitMask + 1)

\* A hasShard that looks at the first mask only.
hasShard_FirstMaskOnly(shardMaskList, shardId) ==
    /\ Len(shardMaskList) > 0
    /\ is_shard_in_mask(shardId, shardMaskList[1])

hasShard(shardMaskList, shardId) ==
    \E k \in 1..Len(shardMaskList) : is_shard_in_mask(shardId, shardMaskList[k])

\* A coverage test that is content with one covered shard.
__hasAllShards_Any(sts) == \E s \in Shards : Len(sts[s]) > 0

__hasAllShards(sts) == \A s \in Shards : Len(sts[s]) > 0

\* ------------------------------------------------------- event loop
InitTask == 0

\* The handles whose receive loop (activeAndLoopForever) is running.
LiveHandles == {i \in Slaves : conn[i] \in {"connecting", "active"}}

\* MasterServer.shutdown is loop.stop(): the loop finishes the batch of
\* callbacks it is running and then leaves run_forever.  Every other task may
\* have one callback in that batch; callbacks scheduled from now on never run.
shutdown(caller) ==
    /\ loop' = IF loop = "running" THEN "stopping" ELSE loop
    /\ batch' = IF loop = "running"
                THEN ({InitTask} \cup LiveHandles) \ {caller}
                ELSE batch \ {caller}

\* A callback of task t can run.
CanStep(t) == loop = "running" \/ (loop = "stopping" /\ t \in batch)

\* The loop after a callback of task t that made n calls of shutdown.
Stepped(t, n) ==
    /\ shutdownCalls' = shutdownCalls + n
    /\ IF n > 0
       THEN shutdown(t)
       ELSE /\ loop' = loop
            /\ batch' = batch \ {t}

InitCanStep == CanStep(InitTask)

InitStepped(n) == Stepped(InitTask, n)

Init ==
    /\ config \in [Slaves -> ConfigMaskLists]
    /\ pc = "start"
    /\ idx = 0
    /\ attempts = 0
    /\ sleeps = 0
    /\ conn = [i \in Slaves |-> "none"]
    /\ activeFuture = {}
    /\ slavePool = {}
    /\ shardToSlaves = [s \in Shards |-> <<>>]
    /\ pingSent = {}
    /\ mismatched = {}
    /\ meshSent = {}
    /\ meshReq = [i \in Slaves |-> <<>>]
    /\ meshCur = 0
    /\ meshDone = {}
    /\ meshErr = {}
    /\ shutdownCalls = 0
    /\ loop = "running"
    /\ batch = {}
    /\ supPc = "new"
    /\ procs = <<>>
    /\ st = [p \in Procs |-> "none"]
    /\ task = [p \in Procs |-> "none"]
    /\ shutdownCalled = FALSE
    /\ sdCalls = 0
    /\ directCalls = 0
    /\ killBy = "none"
    /\ killTask = 0
    /\ killList = <<>>
    /\ killState = "none"
    /\ banners = 0
    /\ sig = [p \in Procs |-> 0]
    /\ cmd = [p \in Procs |-> <<>>]
    /\ kv = [k \in {} |-> <<>>]
    /\ overlay = [k \in {} |-> <<>>]
    /\ txIter = NoIter
    /\ selfPort = 0
    /\ peerObjs = <<>>
    /\ activePeerPool = {}
    /\ dialing = [a \in AddrStrings |-> 0]

\* ------------------------------------------------------- __initCluster
\* ClusterConfig.getSlaveInfoList: one SlaveInfo per entry of the configuration,
\* in its order; an entry is named by its id.
getSlaveInfoList == [k \in 1..NumSlaves |-> k]

\* __setupSlaveToSlaveConnections from the top of its loop body: the next slave
\* of the pool (a set, so any order) is already active, so waitUntilActive does
\* not suspend and the request is written at once; the task then waits for the
\* response.  A request on a closed connection fails.
MeshNext(pool, sent) ==
    IF pool \ sent = {}
    THEN /\ pc' = "ready"
         /\ meshCur' = 0
         /\ meshSent' = sent
         /\ meshReq' = meshReq
    ELSE \E j \in pool \ sent :
            IF conn[j] = "closed"
            THEN /\ pc' = "raised"
                 /\ meshCur' = 0
                 /\ meshSent' = sent
                 /\ meshReq' = meshReq
            ELSE /\ pc' = "mesh"
                 /\ meshCur' = j
                 /\ meshSent' = sent \cup {j}
                 /\ meshReq' = [meshReq EXCEPT ![j] = getSlaveInfoList]

\* __initCluster after __connectToSlaves returned.
InitClusterTail(pool, sts) ==
    IF ~__hasAllShards(sts)
    THEN /\ pc' = "missing"
         /\ UNCHANGED <<meshCur, meshSent, meshReq>>
    ELSE MeshNext(pool, {})

\* The task's first step: __connectToSlaves calls __connect for the first slave.
StartInit ==
    /\ UNCHANGED <<svars, pvars, dvars>>
    /\ pc = "start"
    /\ InitCanStep
    /\ pc' = "connect"
    /\ idx' = 1
    /\ InitStepped(0)
    /\ UNCHANGED <<config, attempts, sleeps, conn, activeFuture, slavePool,
                   shardToSlaves, pingSent, mismatched, meshSent, meshReq, meshCur,
                   meshDone, meshErr>>

\* A __connect that gives up at the second failure.
ConnectFail_GiveUp ==
    /\ UNCHANGED <<svars, pvars, dvars>>
    /\ pc = "connect"
    /\ InitCanStep
    /\ attempts < MaxAttempts
    /\ pc' = IF attempts >= 1 THEN "raised" ELSE "sleep"
    /\ attempts' = attempts + 1
    /\ InitStepped(0)
    /\ UNCHANGED <<config, idx, sleeps, conn, activeFuture, slavePool,
                   shardToSlaves, pingSent, mismatched, meshSent, meshReq, meshCur,
                   meshDone, meshErr>>

\* open_connection raised: log and sleep.
ConnectFail ==
    /\ UNCHANGED <<svars, pvars, dvars>>
    /\ pc = "connect"
    /\ InitCanStep
    /\ attempts < MaxAttempts
    /\ pc' = "sleep"
    /\ attempts' = attempts + 1
    /\ InitStepped(0)
    /\ UNCHANGED <<config, idx, sleeps, conn, activeFuture, slavePool,
                   shardToSlaves, pingSent, mismatched, meshSent, meshReq, meshCur,
                   meshDone, meshErr>>

\* asyncio.sleep(1) is over: the loop of __connect tries again.
RetryWake ==
    /\ UNCHANGED <<svars, pvars, dvars>>
    /\ pc = "sleep"
    /\ InitCanStep
    /\ pc' = "connect"
    /\ sleeps' = sleeps + 1
    /\ InitStepped(0)
    /\ UNCHANGED <<config, idx, attempts, conn, activeFuture, slavePool,
                   shardToSlaves, pingSent, mismatched, meshSent, meshReq, meshCur,
                   meshDone, meshErr>>

\* A SlaveConnection built without the check of its mask list.
ConnectOk_NoCheck ==
    /\ UNCHANGED <<svars, pvars, dvars>>
    /\ pc = "connect"
    /\ InitCanStep
    /\ conn' = [conn EXCEPT ![idx] = "connecting"]
    /\ pc' = "waitActive"
    /\ InitStepped(0)
    /\ UNCHANGED <<config, idx, attempts, sleeps, activeFuture, slavePool,
                   shardToSlaves, pingSent, mismatched, meshSent, meshReq, meshCur,
                   meshDone, meshErr>>

\* open_connection succeeded: __connect returns and SlaveConnection is built.
\* Its check(len(shardMaskList) > 0) raises before the receive loop is started.
ConnectOk ==
    /\ UNCHANGED <<svars, pvars, dvars>>
    /\ pc = "connect"
    /\ InitCanStep
    /\ IF Len(config[idx]) > 0
       THEN /\ conn' = [conn EXCEPT ![idx] = "connecting"]
            /\ pc' = "waitActive"
       ELSE /\ conn' = conn
            /\ pc' = "raised"
    /\ InitStepped(0)
    /\ UNCHANGED <<config, idx, attempts, sleeps, activeFuture, slavePool,
                   shardToSlaves, pingSent, mismatched, meshSent, meshReq, meshCur,
                   meshDone, meshErr>>

\* activeAndLoopForever of a handle: the connection becomes active.
Activate(i) ==
    /\ UNCHANGED <<svars, pvars, dvars>>
    /\ CanStep(i)
    /\ conn[i] = "connecting"
    /\ conn' = [conn EXCEPT ![i] = "active"]
    /\ activeFuture' = activeFuture \cup {i}
    /\ Stepped(i, 0)
    /\ UNCHANGED <<config, pc, idx, attempts, sleeps, slavePool, shardToSlaves,
                   pingSent, mismatched, meshSent, meshReq, meshCur, meshDone, meshErr>>

\* A sendPing that does not wait for the handle to be active.
SendPing_NoWait ==
    /\ UNCHANGED <<svars, pvars, dvars>>
    /\ pc = "waitActive"
    /\ InitCanStep
    /\ IF conn[idx] = "closed"
       THEN /\ pc' = "raised"
            /\ pingSent' = pingSent
       ELSE /\ pc' = "ping"
            /\ pingSent' = pingSent \cup {idx}
    /\ attempts' = 0
    /\ sleeps' = 0
    /\ InitStepped(0)
    /\ UNCHANGED <<config, idx, conn, activeFuture, slavePool, shardToSlaves,
                   mismatched, meshSent, meshReq, meshCur, meshDone, meshErr>>

\* waitUntilActive returned: sendPing writes the request and waits.
SendPing ==
    /\ UNCHANGED <<svars, pvars, dvars>>
    /\ pc = "waitActive"
    /\ InitCanStep
    /\ idx \in activeFuture
    /\ IF conn[idx] = "closed"
       THEN /\ pc' = "raised"
            /\ pingSent' = pingSent
       ELSE /\ pc' = "ping"
            /\ pingSent' = pingSent \cup {idx}
    /\ attempts' = 0
    /\ sleeps' = 0
    /\ InitStepped(0)
    /\ UNCHANGED <<config, idx, conn, activeFuture, slavePool, shardToSlaves,
                   mismatched, meshSent, meshReq, meshCur, meshDone, meshErr>>

\* seq followed by n copies of i.
RECURSIVE AppendTimes(_, _, _)
AppendTimes(seq, i, n) ==
    IF n = 0 THEN seq ELSE AppendTimes(Append(seq, i), i, n - 1)

\* A registration that appends the slave once per mask that covers the shard.
PingReply_AppendPerMask(id, shardMaskList) ==
    /\ UNCHANGED <<svars, pvars, dvars>>
    /\ pc = "ping"
    /\ InitCanStep
    /\ conn[idx] = "active"
    /\ LET badId == id # idx
           badMasks == shardMaskList # config[idx]
           pool == slavePool \cup {idx}
           sts == [s \in Shards |->
                      AppendTimes(shardToSlaves[s], idx,
                          Cardinality({k \in 1..Len(config[idx]) :
                                          is_shard_in_mask(s, config[idx][k])}))]
       IN  /\ mismatched' = IF badId \/ badMasks
                            THEN mismatched \cup {idx} ELSE mismatched
           /\ InitStepped((IF badId THEN 1 ELSE 0) + (IF badMasks THEN 1 ELSE 0))
           /\ slavePool' = pool
           /\ shardToSlaves' = sts
           /\ IF idx < NumSlaves
              THEN /\ pc' = "connect"
                   /\ idx' = idx + 1
                   /\ UNCHANGED <<meshCur, meshSent, meshReq>>
              ELSE /\ InitClusterTail(pool, sts)
                   /\ idx' = idx
    /\ UNCHANGED <<config, attempts, sleeps, conn, activeFuture, pingSent,
                   meshDone, meshErr>>

\* The PING response (id, shardMaskList) arrived: compare with the
\* configuration, register the slave, go on with the next slave or with the
\* rest of __initCluster.
PingReply(id, shardMaskList) ==
    /\ UNCHANGED <<svars, pvars, dvars>>
    /\ pc = "ping"
    /\ InitCanStep
    /\ conn[idx] = "active"
    /\ LET badId == id # idx
           badMasks == shardMaskList # config[idx]
           pool == slavePool \cup {idx}
           sts == [s \in Shards |->
                      IF hasShard(config[idx], s)
                      THEN Append(shardToSlaves[s], idx)
                      ELSE shardToSlaves[s]]
       IN  /\ mismatched' = IF badId \/ badMasks
                            THEN mismatched \cup {idx} ELSE mismatched
           /\ InitStepped((IF badId THEN 1 ELSE 0) + (IF badMasks THEN 1 ELSE 0))
           /\ slavePool' = pool
           /\ shardToSlaves' = sts
           /\ IF idx < NumSlaves
              THEN /\ pc' = "connect"
                   /\ idx' = idx + 1
                   /\ UNCHANGED <<meshCur, meshSent, meshReq>>
              ELSE /\ InitClusterTail(pool, sts)
                   /\ idx' = idx
    /\ UNCHANGED <<config, attempts, sleeps, conn, activeFuture, pingSent,
                   meshDone, meshErr>>

\* A caller of sendConnectToSlaves that ignores its result.
MeshReply_IgnoreResult(resultList) ==
    /\ UNCHANGED <<svars, pvars, dvars>>
    /\ pc = "mesh"
    /\ InitCanStep
    /\ conn[meshCur] = "active"
    /\ IF Len(resultList) # Len(meshReq[meshCur])
       THEN /\ pc' = "raised"
            /\ meshErr' = meshErr \cup {meshCur}
            /\ InitStepped(0)
            /\ UNCHANGED <<meshCur, meshSent, meshReq, meshDone>>
       ELSE /\ meshErr' = IF \E k \in 1..Len(resultList) : Len(resultList[k]) > 0
                          THEN meshErr \cup {meshCur} ELSE meshErr
            /\ InitStepped(0)
            /\ meshDone' = meshDone \cup {meshCur}
            /\ MeshNext(slavePool, meshSent)
    /\ UNCHANGED <<config, idx, attempts, sleeps, conn, activeFuture, slavePool,
                   shardToSlaves, pingSent, mismatched>>

\* The CONNECT_TO_SLAVES response arrived.  A result list of the wrong length
\* fails the check; a non-empty result makes sendConnectToSlaves return False
\* and the caller call shutdown; the loop over slavePool then goes on.
MeshReply(resultList) ==
    /\ UNCHANGED <<svars, pvars, dvars>>
    /\ pc = "mesh"
    /\ InitCanStep
    /\ conn[meshCur] = "active"
    /\ IF Len(resultList) # Len(meshReq[meshCur])
       THEN /\ pc' = "raised"
            /\ meshErr' = meshErr \cup {meshCur}
            /\ InitStepped(0)
            /\ UNCHANGED <<meshCur, meshSent, meshReq, meshDone>>
       ELSE IF \E k \in 1..Len(resultList) : Len(resultList[k]) > 0
       THEN /\ meshErr' = meshErr \cup {meshCur}
            /\ InitStepped(1)
            /\ meshDone' = meshDone
            /\ MeshNext(slavePool, meshSent)
       ELSE /\ meshErr' = meshErr
            /\ InitStepped(0)
            /\ meshDone' = meshDone \cup {meshCur}
            /\ MeshNext(slavePool, meshSent)
    /\ UNCHANGED <<config, idx, attempts, sleeps, conn, activeFuture, slavePool,
                   shardToSlaves, pingSent, mismatched>>

\* A close that forgets the master.
Close_NoShutdown(i) ==
    /\ UNCHANGED <<svars, pvars, dvars>>
    /\ CanStep(i)
    /\ conn[i] \in {"connecting", "active"}
    /\ conn' = [conn EXCEPT ![i] = "closed"]
    /\ Stepped(i, 0)
    /\ UNCHANGED <<config, pc, idx, attempts, sleeps, activeFuture, slavePool,
                   shardToSlaves, pingSent, mismatched, meshSent, meshReq, meshCur,
                   meshDone, meshErr>>

\* A close that also takes the handle out of the pool and of the table.
Close_Unregisters(i) ==
    /\ UNCHANGED <<svars, pvars, dvars>>
    /\ CanStep(i)
    /\ conn[i] \in {"connecting", "active"}
    /\ conn' = [conn EXCEPT ![i] = "closed"]
    /\ slavePool' = slavePool \ {i}
    /\ shardToSlaves' = [s \in Shards |->
                            SelectSeq(shardToSlaves[s], LAMBDA j : j # i)]
    /\ Stepped(i, 1)
    /\ UNCHANGED <<config, pc, idx, attempts, sleeps, activeFuture,
                   pingSent, mismatched, meshSent, meshReq, meshCur,
                   meshDone, meshErr>>

\* SlaveConnection.close: the connection is closed and the master shut down.
Close(i) ==
    /\ UNCHANGED <<svars, pvars, dvars>>
    /\ CanStep(i)
    /\ conn[i] \in {"connecting", "active"}
    /\ conn' = [conn EXCEPT ![i] = "closed"]
    /\ Stepped(i, 1)
    /\ UNCHANGED <<config, pc, idx, attempts, sleeps, activeFuture, slavePool,
                   shardToSlaves, pingSent, mismatched, meshSent, meshReq, meshCur,
                   meshDone, meshErr>>

\* run_forever returns once the batch in which stop() was called is over.
LoopExit ==
    /\ UNCHANGED <<svars, pvars, dvars>>
    /\ loop = "stopping"
    /\ loop' = "stopped"
    /\ batch' = {}
    /\ UNCHANGED <<config, pc, idx, attempts, sleeps, conn, activeFuture,
                   slavePool, shardToSlaves, pingSent, mismatched, meshSent, meshReq,
                   meshCur, meshDone, meshErr, shutdownCalls>>

Next ==
    \/ StartInit
    \/ ConnectFail
    \/ RetryWake
    \/ ConnectOk
    \/ \E i \in Slaves : Activate(i)
    \/ SendPing
    \/ \E id \in 0..NumSlaves, ml \in MaskLists : PingReply(id, ml)
    \/ \E rl \in ResultLists : MeshReply(rl)
    \/ \E i \in Slaves : Close(i)
    \/ LoopExit

Spec == Init /\ [][Next]_vars

\* ------------------------------------------------------- Cluster (cluster.py)
\* The coroutines of Cluster are awaited by a caller: run() awaits runMaster,
\* then runSlaves, then gathers one waitAndShutdown per record; runSlaves and
\* shutdown can also be awaited on their own.  The processes are OS processes:
\* they exit whenever they do, also while kill_child_processes is running.

\* parent.children(recursive=True): the spawned processes still in the process
\* table.
Children == SelectSeq(procs, LAMBDA p : st[p] = "alive")

\* run_slave: the command line of a slave process.  shardMaskList[0] is what
\* is formatted into --shard_mask; the port, the id and the storage path are
\* passed on as given (the id stands for the three).
run_slave(id, shardMaskList) ==
    [node_id |-> id, shard_mask |-> shardMaskList[1]]

\* run(): runMaster awaits run_master, whose command line names dbPath, a name
\* that is not defined: NameError, before any process is created.
RunMaster ==
    /\ supPc = "new"
    /\ supPc' = "runRaised"
    /\ UNCHANGED <<config, mvars, pvars, dvars, procs, st, task, shutdownCalled, sdCalls,
                   directCalls, killBy, killTask, killList, killState, banners,
                   sig, cmd>>

\* runSlaves, one iteration: run_slave formats shardMaskList[0] (IndexError on
\* an empty list), creates the process, and the record is appended.  After the
\* last slave the waitAndShutdown tasks of all records are gathered.
SpawnSlave ==
    /\ supPc \in {"new", "spawning"}
    /\ killBy = "none"
    /\ LET k == Len(procs) + 1
       IN  IF Len(config[k]) = 0
           THEN /\ supPc' = "raised"
                /\ UNCHANGED <<procs, st, task, cmd>>
           ELSE /\ st' = [st EXCEPT ![k] = "alive"]
                /\ cmd' = [cmd EXCEPT ![k] = run_slave(k, config[k])]
                /\ procs' = Append(procs, k)
                /\ IF k = NumSlaves
                   THEN /\ supPc' = "supervising"
                        /\ task' = [p \in Procs |->
                                      IF p \in 1..k THEN "waiting" ELSE "none"]
                   ELSE /\ supPc' = "spawning"
                        /\ task' = task
    /\ UNCHANGED <<config, mvars, pvars, dvars, shutdownCalled, sdCalls, directCalls, killBy,
                   killTask, killList, killState, banners, sig>>

\* A process exits and leaves the process table.
ProcExit(p) ==
    /\ st[p] = "alive"
    /\ st' = [st EXCEPT ![p] = "gone"]
    /\ UNCHANGED <<config, mvars, pvars, dvars, supPc, procs, task, shutdownCalled, sdCalls,
                   directCalls, killBy, killTask, killList, killState, banners,
                   sig, cmd>>

\* Cluster.shutdown up to the loop of kill_child_processes: the flag is set,
\* the children are listed and the banner is printed.
Cluster_shutdown(by, t) ==
    /\ shutdownCalled' = TRUE
    /\ sdCalls' = sdCalls + 1
    /\ banners' = banners + 1
    /\ IF Children = <<>>
       THEN /\ killBy' = "none"
            /\ killTask' = 0
            /\ killList' = <<>>
            /\ killState' = "done"
       ELSE /\ killBy' = by
            /\ killTask' = t
            /\ killList' = Children
            /\ killState' = "running"

\* A waitAndShutdown that does not look at shutdownCalled.
WaitResume_NoFlagTest(p) ==
    /\ supPc # "interrupted"
    /\ task[p] = "waiting"
    /\ st[p] = "gone"
    /\ killBy = "none"
    /\ Cluster_shutdown("task", p)
    /\ task' = [task EXCEPT ![p] =
                  IF Children = <<>> THEN "done" ELSE "killing"]
    /\ UNCHANGED <<config, mvars, pvars, dvars, supPc, procs, st, directCalls, sig, cmd>>

\* waitAndShutdown after proc.wait() returned.
WaitResume(p) ==
    /\ supPc # "interrupted"
    /\ task[p] = "waiting"
    /\ st[p] = "gone"
    /\ killBy = "none"
    /\ IF shutdownCalled
       THEN /\ task' = [task EXCEPT ![p] = "done"]
            /\ UNCHANGED <<shutdownCalled, sdCalls, killBy, killTask, killList,
                           killState, banners>>
       ELSE /\ Cluster_shutdown("task", p)
            /\ task' = [task EXCEPT ![p] =
                          IF Children = <<>> THEN "done" ELSE "killing"]
    /\ UNCHANGED <<config, mvars, pvars, dvars, supPc, procs, st, directCalls, sig, cmd>>

\* Cluster.shutdown awaited outside waitAndShutdown (startAndLoop does so on
\* KeyboardInterrupt).
DirectShutdown ==
    /\ killBy = "none"
    /\ directCalls < MaxDirectShutdowns
    /\ directCalls' = directCalls + 1
    /\ Cluster_shutdown("caller", 0)
    /\ UNCHANGED <<config, mvars, pvars, dvars, supPc, procs, st, task, sig, cmd>>

\* kill_child_processes has left its loop: shutdown returns, or raises, to
\* whoever awaited it.
KillEnded(result) ==
    /\ killBy' = "none"
    /\ killTask' = 0
    /\ killState' = result
    /\ task' = IF killBy = "task"
               THEN [task EXCEPT ![killTask] = result]
               ELSE task

\* kill_child_processes, one iteration of its loop: cmdline() is guarded by
\* try/except, send_signal is not and raises NoSuchProcess for a process that
\* is gone.
KillStep ==
    /\ killBy # "none"
    /\ LET process == Head(killList)
       IN  IF st[process] = "gone"
           THEN /\ sig' = sig
                /\ killList' = <<>>
                /\ KillEnded("raised")
           ELSE /\ sig' = [sig EXCEPT ![process] = @ + 1]
                /\ killList' = Tail(killList)
                /\ IF Tail(killList) = <<>>
                   THEN KillEnded("done")
                   ELSE UNCHANGED <<killBy, killTask, killState, task>>
    /\ UNCHANGED <<config, mvars, pvars, dvars, supPc, procs, st, shutdownCalled, sdCalls,
                   directCalls, banners, cmd>>

\* startAndLoop: KeyboardInterrupt ends run_until_complete(self.run()), also
\* in the middle of a waitAndShutdown task that is in kill_child_processes;
\* the handler then runs self.shutdown() to its end and swallows what it
\* raises.  The supervisor has returned when supPc = "interrupted" and no
\* kill_child_processes is running.
Interrupt ==
    /\ supPc \in {"new", "spawning", "supervising"}
    /\ killBy # "caller"
    /\ supPc' = "interrupted"
    /\ Cluster_shutdown("caller", 0)
    /\ task' = IF killBy = "task"
               THEN [task EXCEPT ![killTask] = "raised"]
               ELSE task
    /\ UNCHANGED <<config, mvars, pvars, dvars, procs, st, directCalls, sig, cmd>>

\* gather in run(): it returns when every task is done and raises when a task
\* raised.
RunEnd ==
    /\ supPc = "supervising"
    /\ killBy = "none"
    /\ \/ /\ \E p \in Procs : task[p] = "raised"
          /\ supPc' = "raised"
       \/ /\ \A p \in Procs : task[p] \in {"none", "done"}
          /\ supPc' = "returned"
    /\ UNCHANGED <<config, mvars, pvars, dvars, procs, st, task, shutdownCalled, sdCalls,
                   directCalls, killBy, killTask, killList, killState, banners,
                   sig, cmd>>

SupNext ==
    \/ RunMaster
    \/ SpawnSlave
    \/ \E p \in Procs : ProcExit(p)
    \/ \E p \in Procs : WaitResume(p)
    \/ DirectShutdown
    \/ KillStep
    \/ Interrupt
    \/ RunEnd

SupSpec == Init /\ [][SupNext]_vars

\* The supervisor's loop runs the callbacks that are ready, and a process that
\* was sent the termination signal exits.
SupFairness ==
    /\ \A p \in Procs : WF_vars(WaitResume(p))
    /\ \A p \in Procs : WF_vars(sig[p] > 0 /\ ProcExit(p))
    /\ WF_vars(KillStep)
    /\ WF_vars(RunEnd)

SupLiveSpec == Init /\ [][SupNext]_vars /\ SupFairness

\* ------------------------------------------------------- P2PNetwork
\* One node of the peer-to-peer network.  refreshConnections has no await: it
\* is one callback.  A connect task is suspended in open_connection, then in
\* peer.start.  A Peer is named by its cluster peer id.

nextClusterPeerId == Len(peerObjs)

self_ip_port == ip_port(selfPort)

\* The connect tasks waiting in open_connection.
RECURSIVE SumOver(_, _)
SumOver(f, S) ==
    IF S = {} THEN 0
    ELSE LET a == CHOOSE a \in S : TRUE IN f[a] + SumOver(f, S \ {a})

Dialing == SumOver(dialing, AddrStrings)

\* P2PNetwork.__init__: the node takes its address from the configuration.
P2PNetwork_init(port) ==
    /\ selfPort = 0
    /\ selfPort' = port
    /\ UNCHANGED <<config, mvars, svars, dvars, peerObjs, activePeerPool, dialing>>

\* A refresh that disconnects every active peer.
to_be_disconnected_All(listed) == activePeerPool

\* The peers of the pool whose 'ip:port' is not in the list.
to_be_disconnected(listed) ==
    {i \in activePeerPool : ip_port(peerObjs[i].port) \notin listed}

\* A node that initiates towards the numerically greater port.
initiates_Numeric(ipPort) == selfPort < split(ipPort)

\* self_ip_port < ip_port
initiates(ipPort) == StrLess(self_ip_port, ipPort)

\* Peer.close: the connection is closed and the peer leaves activePeerPool.
Peer_close(peer) ==
    [peer EXCEPT !.state = "closed", !.closes = @ + 1]

\* refreshConnections(peers): the active peers that are not listed are closed;
\* a connect task is started for every listed address that is not the address
\* of an active peer and is greater than this node's.
refreshConnections(peers) ==
    /\ selfPort # 0
    /\ LET listed == {peers[k] : k \in 1..Len(peers)}
           closing == to_be_disconnected(listed)
           pool == activePeerPool \ closing
           active == {ip_port(peerObjs[i].port) : i \in pool}
           to_be_connected == listed \ active
           started == {a \in to_be_connected : initiates(a)}
       IN  /\ nextClusterPeerId + Dialing + Cardinality(started) <= MaxPeers
           /\ peerObjs' = [i \in 1..Len(peerObjs) |->
                              IF i \in closing THEN Peer_close(peerObjs[i])
                              ELSE peerObjs[i]]
           /\ activePeerPool' = pool
           /\ dialing' = [a \in AddrStrings |->
                             IF a \in started THEN dialing[a] + 1 ELSE dialing[a]]
    /\ UNCHANGED <<config, mvars, svars, dvars, selfPort>>

\* connect: open_connection raised, the task returns None.
OpenFail(a) ==
    /\ dialing[a] > 0
    /\ dialing' = [dialing EXCEPT ![a] = @ - 1]
    /\ UNCHANGED <<config, mvars, svars, dvars, selfPort, peerObjs, activePeerPool>>

\* connect: open_connection returned; the Peer is built with the next cluster
\* peer id, sends its hello and waits in start for the hello of the node that
\* listens at that address.
OpenOk(a) ==
    /\ dialing[a] > 0
    /\ dialing' = [dialing EXCEPT ![a] = @ - 1]
    /\ peerObjs' = Append(peerObjs, [port |-> split(a), outbound |-> TRUE,
                                     state |-> "handshake", closes |-> 0])
    /\ UNCHANGED <<config, mvars, svars, dvars, selfPort, activePeerPool>>

\* newPeer: a node connected to this one; the Peer waits for its hello.
newPeer(port) ==
    /\ selfPort # 0
    /\ port # selfPort
    /\ nextClusterPeerId + Dialing < MaxPeers
    /\ peerObjs' = Append(peerObjs, [port |-> port, outbound |-> FALSE,
                                     state |-> "handshake", closes |-> 0])
    /\ UNCHANGED <<config, mvars, svars, dvars, selfPort, activePeerPool, dialing>>

\* Peer.start succeeded: the peer is active and in activePeerPool.
PeerStartOk(i) ==
    /\ i \in 1..Len(peerObjs)
    /\ peerObjs[i].state = "handshake"
    /\ peerObjs' = [peerObjs EXCEPT ![i].state = "active"]
    /\ activePeerPool' = activePeerPool \cup {i}
    /\ UNCHANGED <<config, mvars, svars, dvars, selfPort, dialing>>

\* The connection of a peer is lost, during the handshake or later: its
\* receive loop closes it.
PeerLost(i) ==
    /\ i \in 1..Len(peerObjs)
    /\ peerObjs[i].state \in {"handshake", "active"}
    /\ peerObjs' = [peerObjs EXCEPT ![i].state = "lost", ![i].closes = @ + 1]
    /\ activePeerPool' = activePeerPool \ {i}
    /\ UNCHANGED <<config, mvars, svars, dvars, selfPort, dialing>>

P2PNext ==
    \/ \E port \in Ports : P2PNetwork_init(port)
    \/ \E peers \in PeerLists : refreshConnections(peers)
    \/ \E a \in AddrStrings : OpenFail(a)
    \/ \E a \in AddrStrings : OpenOk(a)
    \/ \E port \in Ports : newPeer(port)
    \/ \E i \in 1..MaxPeers : PeerStartOk(i)
    \/ \E i \in 1..MaxPeers : PeerLost(i)

\* The cluster configuration plays no part in the network of a node.
P2PInit == Init /\ config = [i \in Slaves |-> <<1>>]

P2PSpec == P2PInit /\ [][P2PNext]_vars

\* ------------------------------------------------------------------ db.py
\* InMemoryDb.get / put on the dictionary db.
InMemoryDb_get(db, key) == IF key \in DOMAIN db THEN db[key] ELSE None

InMemoryDb_put(db, key, value) ==
    [k \in DOMAIN db \cup {key} |-> IF k = key THEN value ELSE db[k]]

\* bytes <= bytes of Python.
BytesLe(a, b) == a = b \/ StrLess(a, b)

\* keys.sort(): the keys in ascending order.
RECURSIVE sort(_)
sort(keys) ==
    IF keys = {} THEN <<>>
    ELSE LET m == CHOOSE m \in keys : \A k \in keys : BytesLe(m, k)
         IN  <<m>> \o sort(keys \ {m})

\* InMemoryDb.rangeIter: the (k, v) pairs with start <= k <= end, by key.
rangeIter(db, start, end) ==
    LET keys == sort({k \in DOMAIN db : BytesLe(start, k) /\ BytesLe(k, end)})
    IN  [i \in 1..Len(keys) |-> <<keys[i], db[keys[i]]>>]

\* (int.from_bytes(b) + 1).to_bytes(len(b)), big endian.
RECURSIVE PlusOne(_)
PlusOne(b) ==
    IF b = <<>> THEN <<>>
    ELSE LET n == Len(b)
         IN  IF b[n] = ByteMax
             THEN Append(PlusOne(SubSeq(b, 1, n - 1)), 0)
             ELSE [b EXCEPT ![n] = b[n] + 1]

\* Transaction.serialize / Transaction.deserialize: the number of inputs, the
\* (hash, index) of each input, the address of each output.
RECURSIVE serializeInputs(_)
serializeInputs(inList) ==
    IF inList = <<>> THEN <<>>
    ELSE Head(inList) \o serializeInputs(Tail(inList))

serialize(tx) == <<Len(tx.inList)>> \o serializeInputs(tx.inList) \o tx.outList

deserialize(b) ==
    [inList  |-> [i \in 1..b[1] |-> <<b[2 * i], b[2 * i + 1]>>],
     outList |-> SubSeq(b, 2 * b[1] + 2, Len(b))]

\* getTxAndTimestamp: None for a hash that is not stored.
getTxAndTimestamp(db, txHash) ==
    LET value == InMemoryDb_get(db, tx_ \o <<txHash>>)
    IN  IF value = None THEN None
        ELSE [tx |-> deserialize(Tail(value)), timestamp |-> Head(value)]

getTx(db, txHash) == getTxAndTimestamp(db, txHash).tx

\* The elements of a list.
Range(seq) == {seq[i] : i \in 1..Len(seq)}

\* Account keys whose timestamp field holds createTime itself.
__putTxToAccounts_PlainTime(db, tx, txHash, createTime) ==
    LET addrSet == {getTx(db, txInput[1]).outList[txInput[2]] :
                       txInput \in Range(tx.inList)} \cup Range(tx.outList)
        keys == {addr_ \o <<addr>> \o <<createTime>> \o <<txHash>> :
                    addr \in addrSet}
    IN  [k \in DOMAIN db \cup keys |->
            IF k \in keys THEN <<createTime>> ELSE db[k]]

\* __putTxToAccounts, slow path (consumedUtxoList is None): one key per
\* address of a consumed output or of an output, each with value createTime.
__putTxToAccounts(db, tx, txHash, createTime) ==
    LET inverseCreateTime == MAX_TIMESTAMP - createTime
        addrSet == {getTx(db, txInput[1]).outList[txInput[2]] :
                       txInput \in Range(tx.inList)} \cup Range(tx.outList)
        keys == {addr_ \o <<addr>> \o <<inverseCreateTime>> \o <<txHash>> :
                    addr \in addrSet}
    IN  [k \in DOMAIN db \cup keys |->
            IF k \in keys THEN <<createTime>> ELSE db[k]]

\* The spent_ records of putTx.
RECURSIVE putSpent(_, _, _)
putSpent(db, inList, txHash) ==
    IF inList = <<>> THEN db
    ELSE putSpent(InMemoryDb_put(db, spent_ \o Head(inList), <<txHash>>),
                  Tail(inList), txHash)

\* putTx(tx, block) with rootBlockHeader and consumedUtxoList left None;
\* createTime is block.header.createTime, and the header serializes to it.
putTx(db, tx, txHash, createTime) ==
    LET db1 == InMemoryDb_put(db, tx_ \o <<txHash>>, <<createTime>> \o serialize(tx))
        db2 == InMemoryDb_put(db1, txBlockHeader_ \o <<txHash>>, <<createTime>>)
        db3 == putSpent(db2, tx.inList, txHash)
    IN  __putTxToAccounts(db3, tx, txHash, createTime)

\* A transaction that can be confirmed: its hash is new and each input names
\* an output of a stored transaction.
Confirmable(tx, txHash) ==
    /\ tx_ \o <<txHash>> \notin DOMAIN kv
    /\ \A txInput \in Range(tx.inList) :
          /\ tx_ \o <<txInput[1]>> \in DOMAIN kv
          /\ txInput[2] <= Len(getTx(kv, txInput[1]).outList)

\* DB.putTx of a confirmed transaction.
PutTx(tx, txHash, createTime) ==
    /\ Confirmable(tx, txHash)
    /\ kv' = putTx(kv, tx, txHash, createTime)
    /\ txIter' = NoIter
    /\ UNCHANGED <<config, mvars, svars, pvars, overlay>>

\* Constant.ADDRESS_LENGTH: the width of a serialized address.
ADDRESS_LENGTH == 1

\* accountTxIter, the entries it yields: the first limit ones of the range
\* when limit > 0, all of them otherwise.
accountTxIter(db, address, limit) ==
    LET start == addr_ \o <<address>>
        end == PlusOne(start)
        items == rangeIter(db, start, end)
        timestampStart == Len(addr_) + ADDRESS_LENGTH
        timestampEnd == timestampStart + 1
        n == IF 0 < limit /\ limit <= Len(items) THEN limit ELSE Len(items)
    IN  [i \in 1..n |->
            <<SubSeq(items[i][1], timestampEnd + 1, Len(items[i][1])),
              items[i][2][1]>>]

\* How the generator ends.  When the limit is reached it executes
\* `raise StopIteration()` in its own body: that ends the iteration on an
\* interpreter without PEP 479 and is turned into RuntimeError on one with
\* it.  Otherwise the loop runs out and the generator returns.
accountTxIterEnds(db, address, limit) ==
    IF 0 < limit /\ limit <= Len(rangeIter(db, addr_ \o <<address>>,
                                          PlusOne(addr_ \o <<address>>)))
    THEN {"StopIteration", "RuntimeError"}
    ELSE {"returned"}

\* A caller consumes accountTxIter(address, limit) to its end.  One iteration
\* is recorded per content of the store (a write clears the record): a
\* second one would read the same store.
AccountTxIter(address, limit) ==
    /\ txIter = NoIter
    /\ \E outcome \in accountTxIterEnds(kv, address, limit) :
          txIter' = [address |-> address, limit |-> limit,
                     yielded |-> accountTxIter(kv, address, limit),
                     outcome |-> outcome]
    /\ UNCHANGED <<config, mvars, svars, pvars, kv, overlay>>

DbNext ==
    \/ \E tx \in Transactions, txHash \in TxHashes, createTime \in Times :
          PutTx(tx, txHash, createTime)
    \/ \E address \in Addresses, limit \in 0..NumTx :
          AccountTxIter(address, limit)

\* The cluster configuration plays no part in the database.
DbInit == Init /\ config = [i \in Slaves |-> <<1>>]

DbSpec == DbInit /\ [][DbNext]_vars

\* OverlayDb over the store db: get and _has_key (__contains__).
OverlayDb_get(ov, db, key) ==
    IF key \in DOMAIN ov THEN ov[key] ELSE InMemoryDb_get(db, key)

_has_key(ov, db, key) ==
    IF key \in DOMAIN ov THEN ov[key] # None
    ELSE InMemoryDb_get(db, key) # None

\* The keys and values the overlay is exercised with.
OverlayKeys == {tx_ \o <<h>> : h \in TxHashes}

OverlayValues == {<<t>> : t \in Times}

\* OverlayDb.put
OverlayDb_put(key, value) ==
    /\ overlay' = [k \in DOMAIN overlay \cup {key} |->
                      IF k = key THEN value ELSE overlay[k]]
    /\ UNCHANGED <<config, mvars, svars, pvars, kv, txIter>>

\* A delete that drops the overlay's entry of the key.
OverlayDb_delete_Forget(key) ==
    /\ overlay' = [k \in DOMAIN overlay \ {key} |-> overlay[k]]
    /\ UNCHANGED <<config, mvars, svars, pvars, kv, txIter>>

\* OverlayDb.delete
OverlayDb_delete(key) ==
    /\ overlay' = [k \in DOMAIN overlay \cup {key} |->
                      IF k = key THEN None ELSE overlay[k]]
    /\ UNCHANGED <<config, mvars, svars, pvars, kv, txIter>>

\* InMemoryDb.put on the underlying store, by its owner.
Put(key, value) ==
    /\ kv' = InMemoryDb_put(kv, key, value)
    /\ UNCHANGED <<config, mvars, svars, pvars, overlay, txIter>>

OverlayNext ==
    \/ \E key \in OverlayKeys, value \in OverlayValues : OverlayDb_put(key, value)
    \/ \E key \in OverlayKeys : OverlayDb_delete(key)
    \/ \E key \in OverlayKeys, value \in OverlayValues : Put(key, value)

OverlaySpec == DbInit /\ [][OverlayNext]_vars

\* The slaves answer: what the bring-up needs from its environment.
PingReplyOk == pc = "ping" /\ PingReply(idx, config[idx])

MeshReplyOk == MeshReply([k \in 1..NumSlaves |-> ""])

Fairness ==
    /\ WF_vars(StartInit)
    /\ SF_vars(ConnectOk)
    /\ WF_vars(RetryWake)
    /\ \A i \in Slaves : WF_vars(Activate(i))
    /\ WF_vars(SendPing)
    /\ WF_vars(PingReplyOk)
    /\ WF_vars(MeshReplyOk)

LiveSpec == Init /\ [][Next]_vars /\ Fairness

\* The last slave of the configuration accepts, activates and answers as
\* configured; nothing is assumed of the slaves before it.
LastSlaveFairness ==
    /\ WF_vars(StartInit)
    /\ WF_vars(RetryWake)
    /\ SF_vars(idx = NumSlaves /\ ConnectOk)
    /\ WF_vars(Activate(NumSlaves))
    /\ WF_vars(idx = NumSlaves /\ SendPing)
    /\ WF_vars(idx = NumSlaves /\ PingReplyOk)

LastSlaveSpec == Init /\ [][Next]_vars /\ LastSlaveFairness

\* ======================================================= properties
\* Slave i is listed in some entry of the assignment table.
InTable(i) ==
    \E s \in Shards : \E k \in 1..Len(shardToSlaves[s]) : shardToSlaves[s][k] = i

\* Every shard id is covered by a mask of some configured slave.
Covered ==
    \A s \in Shards : \E i \in Slaves : \E k \in 1..Len(config[i]) :
        is_shard_in_mask(s, config[i][k])

NonEmptyMasks == \A i \in Slaves : Len(config[i]) > 0

\* The environment departed from the good case: a wrong PING response, a bad
\* CONNECT_TO_SLAVES response or a closed connection.
EnvFault ==
    \/ mismatched # {}
    \/ meshErr # {}
    \/ \E i \in Slaves : conn[i] = "closed"

Failed == shutdownCalls > 0

Ready ==
    /\ pc = "ready"
    /\ slavePool = Slaves
    /\ meshDone = Slaves
    /\ shutdownCalls = 0
    /\ loop = "running"

\* C1: a slave whose PING response differs from its configured entry makes the
\* controller call shutdown and is never in slavePool nor in shardToSlaves.
C1_IdentityVerification ==
    \A i \in mismatched :
        /\ Failed
        /\ i \notin slavePool
        /\ ~InTable(i)

\* C2: when every slave is verified and some shard has no slave, the controller
\* has called shutdown.
C2_CoverageGapFatal ==
    (slavePool = Slaves /\ ~__hasAllShards(shardToSlaves)) => Failed

\* C3: a CONNECT_TO_SLAVES request is written only when every configured slave
\* is connected and pinged and every shard has a slave.
C3_MeshGated ==
    meshSent # {} =>
        /\ \A i \in Slaves : conn[i] # "none" /\ i \in pingSent /\ i \in slavePool
        /\ \A s \in Shards : Len(shardToSlaves[s]) > 0

C3_Witness == meshSent # {} /\ pc = "mesh"

\* C4 as stated: with every shard covered by the configuration and slaves that
\* accept, activate and answer as configured, the controller becomes Ready.
C4_Original == Covered => <>(Ready \/ EnvFault)

\* C4 amended: the same for configurations in which, in addition, no slave has
\* an empty mask list.
C4_BringUpLive == (Covered /\ NonEmptyMasks) => <>(Ready \/ EnvFault)

C4_Witness == Covered /\ NonEmptyMasks /\ Ready /\ ~EnvFault

\* The steps of __connect: a failed attempt is followed by one delay and then
\* the next attempt, for the same slave and without a shutdown; the attempt
\* that succeeds, after any number of failures, ends __connect and starts the
\* verification of that slave: its handle is built (which fails only on an
\* empty mask list) and its activation is awaited.
RetrySteps ==
    /\ (pc = "connect" /\ pc' = "sleep") =>
           /\ attempts' = attempts + 1
           /\ idx' = idx
           /\ shutdownCalls' = shutdownCalls
    /\ (pc = "sleep" /\ pc' # "sleep") =>
           /\ pc' = "connect"
           /\ sleeps' = sleeps + 1
           /\ idx' = idx
           /\ shutdownCalls' = shutdownCalls
    /\ (pc = "connect" /\ pc' \notin {"connect", "sleep"}) =>
           /\ sleeps = attempts
           /\ idx' = idx
           /\ shutdownCalls' = shutdownCalls
           /\ IF Len(config[idx]) > 0
              THEN pc' = "waitActive" /\ conn'[idx] = "connecting"
              ELSE pc' = "raised"

\* C5: whatever the number of failed attempts, the attempt that succeeds ends
\* __connect and the slave goes on to be verified; no failed attempt makes the
\* controller give up or shut down, and one delay separates two attempts.
C5_RetryPersistence == [][RetrySteps]_vars

C5_Witness ==
    /\ pc = "waitActive"
    /\ attempts = MaxAttempts
    /\ sleeps = MaxAttempts
    /\ conn[idx] = "connecting"
    /\ ~Failed

\* C6: the step that closes a slave connection calls shutdown, and the
\* controller is not Ready in any state with a closed connection.
C6_SlaveLossFatal ==
    /\ [][\A i \in Slaves :
            (conn[i] # "closed" /\ conn'[i] = "closed") =>
                (shutdownCalls' > shutdownCalls /\ loop' # "running")]_vars
    /\ []((\E i \in Slaves : conn[i] = "closed") =>
            (Failed /\ loop # "running" /\ ~Ready))

C6_Witness ==
    /\ pc = "ready"
    /\ meshDone = Slaves
    /\ \E i \in Slaves : conn[i] = "closed"

\* Cluster.procs once the launch is complete: the master, then the slaves in
\* configuration order.
LaunchedProcs == [k \in 1..(NumSlaves + 1) |-> k - 1]

\* C7: when the launch phase is over, Cluster.procs holds one record for the
\* master followed by one record per configured slave.
C7_LaunchComplete ==
    supPc \notin {"new", "spawning"} => procs = LaunchedProcs

\* A waitAndShutdown task that resumes calls Cluster.shutdown, unless
\* shutdownCalled is set, and then it changes nothing.
ExitTriggers ==
    \A p \in Procs :
        (task[p] = "waiting" /\ task'[p] # "waiting") =>
            IF shutdownCalled
            THEN /\ task'[p] = "done"
                 /\ UNCHANGED <<shutdownCalled, sdCalls, banners, sig, killBy>>
            ELSE /\ shutdownCalled'
                 /\ sdCalls' = sdCalls + 1

\* The shutdown called by a waitAndShutdown task ends with its loop completed:
\* every process it listed was sent the signal.
ExitSignalsAll ==
    (killBy = "task" /\ killBy' = "none") => killState' = "done"

C9_ShutdownIdempotent ==
    /\ banners <= 1
    /\ \A p \in Procs : sig[p] <= 1

\* C10: kill_child_processes does not raise when a listed process has exited.
C10_NeverRaises == killState # "raised"

\* Somebody other than a waitAndShutdown task has called Cluster.shutdown.
OutsideShutdown == directCalls > 0 \/ supPc = "interrupted"

\* C11: once a supervised process has exited, and with every signalled process
\* exiting, every waitAndShutdown task finishes and Cluster.run returns (left
\* aside the runs in which the operator or another caller shuts down).
C11_CascadeTerminates ==
    (supPc = "supervising" /\ \E p \in Procs : st[p] = "gone")
        ~> \/ /\ supPc = "returned"
              /\ \A k \in 1..Len(procs) : task[procs[k]] = "done"
           \/ OutsideShutdown

\* C12: when the supervisor has returned after an interrupt, shutdownCalled is
\* set and every spawned process that has not exited was sent the signal.
C12_InterruptShutsDown ==
    (supPc = "interrupted" /\ killBy = "none") =>
        /\ shutdownCalled
        /\ \A k \in 1..Len(procs) : st[procs[k]] = "gone" \/ sig[procs[k]] > 0

\* The step that receives a CONNECT_TO_SLAVES response: a list whose length is
\* not that of the list sent ends the task in the failed check, with no further
\* request; a list of that length with a non-empty string makes the controller
\* call shutdown, and the slave does not count as connected.
MeshReplyHandled ==
    \A resultList \in ResultLists :
        MeshReply(resultList) =>
            IF Len(resultList) # Len(meshReq[meshCur])
            THEN /\ pc' = "raised"
                 /\ meshSent' = meshSent
                 /\ meshDone' = meshDone
            ELSE (\E k \in 1..Len(resultList) : resultList[k] # "") =>
                    /\ shutdownCalls' = shutdownCalls + 1
                    /\ loop' # "running"
                    /\ meshCur \notin meshDone'

C14_MeshTargetsAreOthers ==
    \A i \in meshSent :
        {meshReq[i][k] : k \in 1..Len(meshReq[i])} = Slaves \ {i}

\* C15: a slave that accepts, activates and answers is connected and verified
\* whatever the slaves configured before it do, also when one of them is never
\* reachable or never answers.
C15_IndependentBringUp ==
    NonEmptyMasks => <>(NumSlaves \in slavePool \/ EnvFault)

\* C19: a PING or CONNECT_TO_SLAVES request is written on a handle only when
\* its activeFuture is resolved, never while it is connecting, and the
\* CONNECT_TO_SLAVES request of a handle comes after its PING.
C19_HandshakeGate ==
    /\ [](pingSent \subseteq activeFuture /\ meshSent \subseteq pingSent)
    /\ [][\A i \in Slaves :
            (i \in (pingSent' \ pingSent) \cup (meshSent' \ meshSent)) =>
                (i \in activeFuture /\ conn[i] # "connecting")]_vars

C19_Witness == pingSent = Slaves /\ meshSent = Slaves /\ pc = "ready"

\* C20: from the step that detects a mismatch on, the controller registers no
\* handle, opens no connection and writes no PING or CONNECT_TO_SLAVES request.
C20_FailureStopsBringUp ==
    [][mismatched' # {} =>
          /\ slavePool' = slavePool
          /\ shardToSlaves' = shardToSlaves
          /\ pingSent' = pingSent
          /\ meshSent' = meshSent
          /\ \A i \in Slaves : conn[i] = "none" => conn'[i] = "none"]_vars

\* The 'ip:port' of the peer with cluster peer id i.
PeerAddr(i) == ip_port(peerObjs[i].port)

\* The step of refreshConnections(peers): close() is called once on every
\* peer of the pool whose address is not listed, and on no other peer.
StaleClosed ==
    \A peers \in PeerLists :
        refreshConnections(peers) =>
            \A i \in 1..Len(peerObjs) :
                IF /\ i \in activePeerPool
                   /\ \A k \in 1..Len(peers) : peers[k] # PeerAddr(i)
                THEN /\ peerObjs'[i].closes = peerObjs[i].closes + 1
                     /\ peerObjs'[i].state = "closed"
                     /\ i \notin activePeerPool'
                ELSE /\ peerObjs'[i] = peerObjs[i]
                     /\ (i \in activePeerPool') = (i \in activePeerPool)

\* C16: refreshConnections closes, once each, exactly the peers of
\* activePeerPool whose 'ip:port' is not in the list.
C16_RefreshDisconnectsStale == [][StaleClosed]_vars

\* A refresh has closed a peer and left a listed one active.
C16_Witness ==
    /\ \E i \in 1..Len(peerObjs) :
           peerObjs[i].state = "closed" /\ peerObjs[i].closes = 1
    /\ activePeerPool # {}

\* The step of refreshConnections(peers): one connect task is started for an
\* address if it is listed, is not the address of an active peer and is
\* greater, as a string, than this node's; no task is started otherwise.
LesserInitiates ==
    \A peers \in PeerLists :
        refreshConnections(peers) =>
            \A a \in AddrStrings :
                dialing'[a] - dialing[a] =
                    IF /\ \E k \in 1..Len(peers) : peers[k] = a
                       /\ \A i \in activePeerPool : PeerAddr(i) # a
                       /\ StrLess(ip_port(selfPort), a)
                    THEN 1 ELSE 0

\* C17: refreshConnections starts a connect for a listed, unconnected address
\* exactly when this node's 'ip:port' is less than it; of two distinct
\* addresses exactly one is less than the other, and none is less than itself,
\* so that a node never connects to its own address.
C17_LesserInitiates ==
    /\ [][LesserInitiates]_vars
    /\ [](\A a, b \in AddrStrings :
             /\ a # b => (StrLess(a, b) # StrLess(b, a))
             /\ ~StrLess(a, a))
    /\ [](selfPort # 0 => dialing[ip_port(selfPort)] = 0)

\* The node "10" has started a connect to "9": the strings decide, not the
\* numbers.
C17_Witness ==
    /\ selfPort = 10
    /\ dialing[ip_port(9)] = 1

\* The outbound connections to address a that are in progress or established.
Outbound(a) ==
    dialing[a] + Cardinality({i \in 1..Len(peerObjs) :
                                /\ peerObjs[i].outbound
                                /\ peerObjs[i].state \in {"handshake", "active"}
                                /\ PeerAddr(i) = a})

\* C18: a node never has two outbound connections, dialing, handshaking or
\* established, to one address.
C18_NoDuplicateOutbound == \A a \in AddrStrings : Outbound(a) <= 1

\* The configured slaves, in configuration order, with a mask that covers s.
CoveringSlaves(s) ==
    SelectSeq(getSlaveInfoList,
              LAMBDA i : \E k \in 1..Len(config[i]) :
                            is_shard_in_mask(s, config[i][k]))

\* C21: when every slave is verified and nothing has failed, shardToSlaves[s]
\* lists, once each and in configuration order, the slaves with a mask that
\* covers s.
C21_TableCorrect ==
    (slavePool = Slaves /\ ~Failed) =>
        \A s \in Shards : shardToSlaves[s] = CoveringSlaves(s)

\* Verification finished for a configuration in which two masks of slave 1
\* cover shard 0.
C21_Witness ==
    /\ slavePool = Slaves
    /\ ~Failed
    /\ config[1] = <<1, 2>>
    /\ pc = "ready"

\* C22: once every configured slave is registered, no step changes slavePool
\* or shardToSlaves.
C22_TableFrozen ==
    [][slavePool = Slaves =>
          (slavePool' = slavePool /\ shardToSlaves' = shardToSlaves)]_vars

\* The mesh phase, a close and the end of the loop have all happened after
\* the last registration.
C22_Witness ==
    /\ slavePool = Slaves
    /\ meshSent # {}
    /\ \E i \in Slaves : conn[i] = "closed"
    /\ loop = "stopped"

\* C23: a slave in slavePool or in shardToSlaves has a non-empty mask list,
\* and for a slave with an empty mask list no handle is registered and no
\* receive loop started: the task ends in the failed check.
C23_NonEmptyMasks ==
    \A i \in Slaves :
        /\ (i \in slavePool \/ InTable(i)) => Len(config[i]) > 0
        /\ Len(config[i]) = 0 =>
               /\ conn[i] = "none"
               /\ i \notin activeFuture
               /\ i \notin pingSent
               /\ (idx = i /\ pc # "connect" /\ pc # "sleep") => pc = "raised"

C23_Witness ==
    /\ pc = "raised"
    /\ idx = NumSlaves
    /\ Len(config[idx]) = 0
    /\ slavePool = Slaves \ {idx}

\* The shard ids covered by one mask.
CoveredBy(mask) == {s \in Shards : is_shard_in_mask(s, mask)}

\* C24: every spawned slave was started with its own id, and the mask on its
\* command line covers the same shard ids as its configured shard_masks.
C24_LaunchArguments ==
    \A k \in 1..Len(procs) :
        LET p == procs[k]
        IN  /\ cmd[p].node_id = p
            /\ CoveredBy(cmd[p].shard_mask) =
                   {s \in Shards : \E j \in 1..Len(config[p]) :
                                      is_shard_in_mask(s, config[p][j])}

\* Cluster.shutdown calls made by waitAndShutdown tasks: all the calls but
\* those awaited directly and the one of an interrupt.
TaskShutdowns ==
    sdCalls - directCalls - (IF supPc = "interrupted" THEN 1 ELSE 0)

\* C25: the waitAndShutdown tasks call Cluster.shutdown at most once, and a
\* task resumed when shutdownCalled is set ends without a banner, a signal or
\* a call.
C25_SingleShutdown ==
    /\ [](TaskShutdowns <= 1)
    /\ [][\A p \in Procs :
            (task[p] = "waiting" /\ task'[p] # "waiting" /\ shutdownCalled) =>
                /\ task'[p] = "done"
                /\ UNCHANGED <<sdCalls, banners, sig, killBy, killList>>]_vars

\* Every process was gone before the first task resumed: one task called
\* shutdown, found nothing to signal, and the others returned.
C25_Witness ==
    /\ TaskShutdowns = 1
    /\ sdCalls = 1
    /\ \A p \in Slaves : task[p] = "done" /\ sig[p] = 0
    /\ supPc = "supervising"

\* C26: put and delete on the overlay leave the underlying store as it is;
\* get gives the value last put in the overlay, None after a delete, the
\* underlying value for a key the overlay was never given; and a key is
\* contained exactly when get is not None.
C26_OverlayIsolates ==
    /\ [](\A k \in OverlayKeys :
            /\ _has_key(overlay, kv, k) <=> OverlayDb_get(overlay, kv, k) # None
            /\ k \notin DOMAIN overlay =>
                   OverlayDb_get(overlay, kv, k) = InMemoryDb_get(kv, k))
    /\ [][\A k \in OverlayKeys :
            /\ \A v \in OverlayValues :
                   OverlayDb_put(k, v) =>
                       /\ kv' = kv
                       /\ OverlayDb_get(overlay', kv', k) = v
                       /\ \A o \in OverlayKeys \ {k} :
                              OverlayDb_get(overlay', kv', o) =
                                  OverlayDb_get(overlay, kv, o)
            /\ OverlayDb_delete(k) =>
                   /\ kv' = kv
                   /\ OverlayDb_get(overlay', kv', k) = None
                   /\ \A o \in OverlayKeys \ {k} :
                          OverlayDb_get(overlay', kv', o) =
                              OverlayDb_get(overlay, kv, o)
            /\ (k \in DOMAIN overlay /\ kv' # kv) =>
                   OverlayDb_get(overlay', kv', k) = OverlayDb_get(overlay, kv, k)]_vars

\* A key of the underlying store deleted in the overlay, and a key put in
\* the overlay that the underlying store does not have.
C26_Witness ==
    /\ tx_ \o <<1>> \in DOMAIN kv
    /\ tx_ \o <<1>> \in DOMAIN overlay
    /\ overlay[tx_ \o <<1>>] = None
    /\ tx_ \o <<2>> \notin DOMAIN kv
    /\ tx_ \o <<2>> \in DOMAIN overlay
    /\ overlay[tx_ \o <<2>>] = <<MAX_TIMESTAMP>>

\* The stored transactions that involve address: one of their outputs, or an
\* output one of their inputs consumes, has it.
Involves(tx, address) ==
    \/ address \in Range(tx.outList)
    \/ \E txInput \in Range(tx.inList) :
          getTx(kv, txInput[1]).outList[txInput[2]] = address

\* The (txHash, createTime) entries of those transactions.
AccountEntries(address) ==
    {<<<<h>>, getTxAndTimestamp(kv, h).timestamp>> :
        h \in {g \in TxHashes : /\ tx_ \o <<g>> \in DOMAIN kv
                                 /\ Involves(getTx(kv, g), address)}}

\* C27: accountTxIter(address) yields, once each, exactly the entries of the
\* stored transactions that involve address, the latest createTime first.
C27_AccountHistoryOrder ==
    [][\A address \in Addresses :
          AccountTxIter(address, 0) =>
              LET y == txIter'.yielded
              IN  /\ Range(y) = AccountEntries(address)
                  /\ Len(y) = Cardinality(AccountEntries(address))
                  /\ \A i, j \in 1..Len(y) : i < j => y[i][2] >= y[j][2]]_vars

\* Transaction 1 pays both addresses at time 0 and transaction 2, at time 1,
\* spends its first output and pays the other address: the history of the
\* first address is transaction 2, then transaction 1.
C27_Witness ==
    /\ txIter.address = ByteMax - 1
    /\ txIter.limit = 0
    /\ txIter.outcome = "returned"
    /\ txIter.yielded = << << <<2>>, MAX_TIMESTAMP >>, << <<1>>, 0 >> >>
    /\ tx_ \o <<2>> \in DOMAIN kv
    /\ getTx(kv, 2).outList = <<ByteMax>>

\* C28: accountTxIter(address, limit) with limit > 0 yields the first limit
\* entries, or all when there are fewer, and ends without an error; with
\* limit 0 it yields all.
C28_AccountHistoryLimit ==
    [][\A address \in Addresses, limit \in 0..NumTx :
          AccountTxIter(address, limit) =>
              LET count == Cardinality(AccountEntries(address))
              IN  /\ txIter'.outcome # "RuntimeError"
                  /\ Len(txIter'.yielded) =
                         IF 0 < limit /\ limit < count THEN limit ELSE count]_vars

====
